---- MODULE Spec2Model ----
(***************************************************************************)
(* Model of the Better Proposals scraper (src/main.py): the batch          *)
(* orchestrator process_urls_from_sheet, the per-row pipeline              *)
(* BetterProposalsScraper.run and the two-tier field derivation            *)
(* parse_with_openai / manual_extract.                                     *)
(*                                                                         *)
(* Text is modelled as a sequence of lexemes (tokens): a Python str is a   *)
(* sequence of tokens, '' is the empty sequence, `x in s` is membership of *)
(* the token x, s.replace(x, '') removes every occurrence of x and         *)
(* s.strip() removes leading and trailing whitespace tokens.               *)
(***************************************************************************)
EXTENDS Integers, Sequences, FiniteSets, TLC

VARIABLES
    pc,              \* position of the program
    df,              \* the input table (None before loading)
    results_df,      \* the output table
    max_urls,        \* the row cap
    urls_to_process, \* min(max_urls, len(df))
    i,               \* loop index of process_urls_from_sheet
    api_key,         \* openai.api_key is set
    attempted,       \* input sources tried so far, in order
    csv_file,        \* contents of proposal.csv
    document_url,    \* scraper.document_url of the current row
    driver,          \* scraper.driver of the current row
    sessions,        \* rows whose browser session is open
    current_url,     \* the browser's current URL
    page,            \* the document page shown by the browser
    raw_data,        \* result of extract_certificate_info
    parsed_data,     \* result of parse_with_openai
    result,          \* return value of scraper.run()
    requests,        \* model-service requests issued for the current row
    log,             \* calls made for the current row, in order
    outcome          \* how each processed row ended

vars == <<pc, df, results_df, max_urls, urls_to_process, i, api_key,
          attempted, csv_file, document_url, driver, sessions, current_url,
          page, raw_data, parsed_data, result, requests, log, outcome>>

----------------------------------------------------------------------------
(* Bounds of the model *)

MaxRows == 2
MaxTimeline == 6
MaxUrlLen == 3
MaxCertLen == 5

----------------------------------------------------------------------------
(* Text *)

SP == " "
MARK == "Sent by"
NotFound == <<"Not found">>
Error == <<"Error">>

Range(s) == {s[k] : k \in DOMAIN s}

SetMin(S) == CHOOSE x \in S : \A y \in S : x <= y
SetMax(S) == CHOOSE x \in S : \A y \in S : x >= y

\* str.strip()
Strip(s) ==
    LET ns == {k \in DOMAIN s : s[k] # SP}
    IN  IF ns = {} THEN <<>> ELSE SubSeq(s, SetMin(ns), SetMax(ns))

\* str.replace(tok, '')
Remove(s, tok) == SelectSeq(s, LAMBDA t : t # tok)

\* k is the first index after `from` at which s holds tok
FirstAt(s, tok, from, k) ==
    /\ k > from /\ s[k] = tok
    /\ \A j \in (from + 1)..(k - 1) : s[j] # tok

RECURSIVE Concat(_)
Concat(ss) == IF ss = <<>> THEN <<>> ELSE Head(ss) \o Concat(Tail(ss))

----------------------------------------------------------------------------
(* Markup of the document page *)

LBY == "Accepted and Signed by"
LON == "Accepted and Signed on"
LIP == "IP Address from signature location"
VALUE_OPEN == "<div class=\"certificate-value\">"
DIV_CLOSE == "</div>"
BLOCK_OPEN == "<div class=\"timeline-block\">"
TITLE_OPEN == "<div class=\"timeline-title\">"

\* block.get_attribute('outerHTML') of one timeline block
BlockHtml(block) ==
    <<BLOCK_OPEN>>
    \o (IF block.hasTitle THEN <<TITLE_OPEN>> \o block.title \o <<DIV_CLOSE>>
                          ELSE <<>>)
    \o <<DIV_CLOSE>>

\* the certificate read although the wait for it expired
ExtractRawLateCertificate(p) ==
    [certificate_html |-> p.certificate,
     timeline_html |-> Concat([k \in DOMAIN p.blocks |-> BlockHtml(p.blocks[k])]),
     sent_by_blocks |->
        LET cand == SelectSeq(p.blocks,
                        LAMBDA b : b.hasTitle /\ MARK \in Range(b.title))
        IN  [k \in DOMAIN cand |-> [html |-> BlockHtml(cand[k]),
                                    text |-> Strip(cand[k].title)]]]

\* the data extract_certificate_info returns for a page
ExtractRaw(p) ==
    [certificate_html |-> IF p.certTimeout THEN <<>> ELSE p.certificate,
     timeline_html |-> Concat([k \in DOMAIN p.blocks |-> BlockHtml(p.blocks[k])]),
     sent_by_blocks |->
        LET cand == SelectSeq(p.blocks,
                        LAMBDA b : b.hasTitle /\ MARK \in Range(b.title))
        IN  [k \in DOMAIN cand |-> [html |-> BlockHtml(cand[k]),
                                    text |-> Strip(cand[k].title)]]]

----------------------------------------------------------------------------
(* Field derivation *)

Keys == {"Signed by", "Signed date", "IP address", "Sent by"}

\* the value taken up to the last closing tag instead of the first
LabelValueGreedy(html, label) ==
    LET found ==
          UNION {UNION {{Strip(SubSeq(html, q + 1, r - 1)) :
                            r \in {x \in DOMAIN html :
                                     /\ x > q /\ html[x] = DIV_CLOSE
                                     /\ \A y \in (x + 1)..Len(html) :
                                           html[y] # DIV_CLOSE}} :
                        q \in {x \in DOMAIN html : FirstAt(html, VALUE_OPEN, p, x)}} :
                 p \in {x \in DOMAIN html : FirstAt(html, label, 0, x)}}
    IN  IF found = {} THEN NotFound ELSE CHOOSE v \in found : TRUE

\* re.search(label + r'.*?<div class="certificate-value">(.*?)</div>', html,
\* re.DOTALL) guarded by `label in html`; group(1).strip() on a match and
\* "Not found" without one.
\* p is the first occurrence of the label, q the first value element after
\* it, r the first closing tag after q
LabelValue(html, label) ==
    LET found ==
          UNION {UNION {{Strip(SubSeq(html, q + 1, r - 1)) :
                            r \in {x \in DOMAIN html : FirstAt(html, DIV_CLOSE, q, x)}} :
                        q \in {x \in DOMAIN html : FirstAt(html, VALUE_OPEN, p, x)}} :
                 p \in {x \in DOMAIN html : FirstAt(html, label, 0, x)}}
    IN  IF found = {} THEN NotFound ELSE CHOOSE v \in found : TRUE

\* a timeline-title element starts at k, its text starts with the marker
\* followed by whitespace, and a closing tag follows
TitleStart(html, k) ==
    /\ html[k] = TITLE_OPEN
    /\ k + 2 <= Len(html)
    /\ html[k + 1] = MARK
    /\ html[k + 2] = SP
    /\ \E e \in (k + 3)..Len(html) : html[e] = DIV_CLOSE

\* re.search(r'<div class="timeline-title[^>]*">Sent by\s+(.*?)</div>',
\* timeline_html, re.DOTALL); group(1).strip() on a match and "Not found"
\* without one
TimelineSentBy(html) ==
    LET found ==
          UNION {{Strip(SubSeq(html, k + 3, e - 1)) :
                     e \in {x \in DOMAIN html : FirstAt(html, DIV_CLOSE, k + 2, x)}} :
                 k \in {x \in DOMAIN html :
                          /\ TitleStart(html, x)
                          /\ \A j \in 1..(x - 1) : ~TitleStart(html, j)}}
    IN  IF found = {} THEN NotFound ELSE CHOOSE v \in found : TRUE

\* the loop over sent_by_blocks: first block whose text holds the marker
BlocksSentBy(blocks, default) ==
    LET ks == {k \in DOMAIN blocks : MARK \in Range(blocks[k].text)}
    IN  IF ks = {} THEN default
        ELSE Strip(Remove(blocks[SetMin(ks)].text, MARK))

manual_extract(raw, sent_by) ==
    LET fromBlocks == IF sent_by = NotFound /\ raw.sent_by_blocks # <<>>
                      THEN BlocksSentBy(raw.sent_by_blocks, sent_by)
                      ELSE sent_by
        sentBy == IF fromBlocks = NotFound
                  THEN TimelineSentBy(raw.timeline_html)
                  ELSE fromBlocks
    IN  [k \in Keys |->
            CASE k = "Signed by" -> LabelValue(raw.certificate_html, LBY)
              [] k = "Signed date" -> LabelValue(raw.certificate_html, LON)
              [] k = "IP address" -> LabelValue(raw.certificate_html, LIP)
              [] k = "Sent by" -> sentBy]

\* answers of the model service: transport failure, text that is not JSON,
\* JSON that is not an object, or a JSON object
Replies ==
    {[kind |-> "transport"], [kind |-> "bad_json"], [kind |-> "non_object"],
     [kind |-> "object",
      data |-> [k \in Keys |-> IF k = "Sent by" THEN <<"Mallory">>
                               ELSE <<"Jane Doe">>]],
     [kind |-> "object",
      data |-> [k \in {"Signed by"} |-> <<"Jane Doe">>]]}

\* parsed_data["Sent by"] = sent_by
SetKey(d, k, v) == [x \in DOMAIN d \cup {k} |-> IF x = k THEN v ELSE d[x]]

\* the credential check left out: a request is made in any case
parse_with_openai_no_key_check(raw, key, raised, reply) ==
    LET sent_by == BlocksSentBy(raw.sent_by_blocks, NotFound)
    IN  IF raised
        THEN [data |-> manual_extract(raw, NotFound), requests |-> 0]
        ELSE IF reply.kind = "object"
        THEN [data |-> SetKey(reply.data, "Sent by", sent_by), requests |-> 1]
        ELSE [data |-> manual_extract(raw, sent_by), requests |-> 1]

\* a failed request surfaced in the result instead of the fallback
parse_with_openai_no_fallback(raw, key, raised, reply) ==
    LET sent_by == BlocksSentBy(raw.sent_by_blocks, NotFound)
    IN  IF raised
        THEN [data |-> manual_extract(raw, NotFound), requests |-> 0]
        ELSE IF ~key
        THEN [data |-> manual_extract(raw, sent_by), requests |-> 0]
        ELSE IF reply.kind = "object"
        THEN [data |-> SetKey(reply.data, "Sent by", sent_by), requests |-> 1]
        ELSE [data |-> [k \in Keys |-> IF k = "Sent by" THEN sent_by ELSE Error],
              requests |-> 1]

\* raised: an exception escapes the preparation of the request (lines 316-354)
parse_with_openai(raw, key, raised, reply) ==
    LET sent_by == BlocksSentBy(raw.sent_by_blocks, NotFound)
    IN  IF raised
        THEN [data |-> manual_extract(raw, NotFound), requests |-> 0]
        ELSE IF ~key
        THEN [data |-> manual_extract(raw, sent_by), requests |-> 0]
        ELSE IF reply.kind = "object"
        THEN [data |-> SetKey(reply.data, "Sent by", sent_by), requests |-> 1]
        ELSE [data |-> manual_extract(raw, sent_by), requests |-> 1]
----------------------------------------------------------------------------
(* Pages the browser can show *)

SeqsUpTo(S, n) == UNION {[1..k -> S] : k \in 0..n}

TitleTokens == {MARK, SP, "Jane", "Not found"}

\* a timeline block: the text inside its timeline-title element as it stands
\* in the markup, when it has one
TimelineBlocks(n) ==
    [hasTitle : {TRUE}, title : SeqsUpTo(TitleTokens, n)]
        \cup {[hasTitle |-> FALSE, title |-> <<>>]}

\* the size of a block: the block itself and the lexemes of its title
BlockSize(b) == 1 + Len(b.title)

\* the timelines of at most n blocks and title lexemes together
RECURSIVE Timelines(_)
Timelines(n) ==
    IF n <= 0 THEN {<<>>}
    ELSE {<<>>} \cup UNION {{<<b>> \o rest : rest \in Timelines(n - BlockSize(b))} :
                             b \in TimelineBlocks(n - 1)}

SignedCertificate ==
    <<LBY, SP, VALUE_OPEN, SP, "Jane Doe", SP, DIV_CLOSE,
      LON, VALUE_OPEN, "08 May 2025", DIV_CLOSE,
      LIP, VALUE_OPEN, "10.0.0.1", DIV_CLOSE>>

\* certTimeout: the bounded wait for the certificate element expired
Pages ==
    {[certTimeout |-> c \in {<<>>}, certificate |-> c, blocks |-> b] :
        c \in {<<>>, SignedCertificate}, b \in Timelines(MaxTimeline)}

NoPage == [certTimeout |-> TRUE, certificate |-> <<>>, blocks |-> <<>>]
NoRaw == ExtractRaw(NoPage)
NoData == [k \in {} |-> <<>>]
NoneV == [none |-> TRUE]

----------------------------------------------------------------------------
(* Tables (pandas DataFrame): ordered columns and rows; a row carries its   *)
(* index label and its cells.                                              *)

Table(cols, rows) == [none |-> FALSE, columns |-> cols, rows |-> rows]

NaN == <<"NaN">>

\* position of col in the sequence cols, 0 when it is not there
PosIn(cols, col) ==
    IF \E j \in DOMAIN cols : cols[j] = col
    THEN CHOOSE j \in DOMAIN cols : cols[j] = col
    ELSE 0

RECURSIVE AppendMissing(_, _)
AppendMissing(cols, new) ==
    IF new = <<>> THEN cols
    ELSE AppendMissing(IF Head(new) \in Range(cols) THEN cols
                                                    ELSE Append(cols, Head(new)),
                       Tail(new))

\* df[col] = value, for each col of cols in turn: an existing column is
\* overwritten, a new one is appended
AddColumns(t, cols, v) ==
    Table(AppendMissing(t.columns, cols),
          [k \in DOMAIN t.rows |->
              [idx |-> t.rows[k].idx,
               cells |-> [c \in DOMAIN t.rows[k].cells \cup Range(cols) |->
                             IF c \in Range(cols) THEN v ELSE t.rows[k].cells[c]]]])

\* df.at[label, col] = vals[j] for each col = cols[j]: sets the cells of the
\* row labelled `label`, and appends a row with that label when there is none
SetAt(t, label, cols, vals) ==
    IF \E k \in DOMAIN t.rows : t.rows[k].idx = label
    THEN Table(t.columns,
               [k \in DOMAIN t.rows |->
                   IF t.rows[k].idx = label
                   THEN [idx |-> label,
                         cells |-> [c \in DOMAIN t.rows[k].cells |->
                                       IF c \in Range(cols) THEN vals[PosIn(cols, c)]
                                       ELSE t.rows[k].cells[c]]]
                   ELSE t.rows[k]])
    ELSE Table(t.columns,
               Append(t.rows,
                      [idx |-> label,
                       cells |-> [c \in Range(t.columns) |->
                                     IF c \in Range(cols) THEN vals[PosIn(cols, c)]
                                     ELSE NaN]]))

ExtractedColumns ==
    <<"Extracted Signed by", "Extracted Signed date",
      "Extracted IP address", "Extracted Sent by">>

ResultKeys == <<"Signed by", "Signed date", "IP address", "Sent by">>

\* the four results_df.at[label, ...] assignments of one row
WriteRow(t, label, vals) == SetAt(t, label, ExtractedColumns, vals)

\* results_df = df.copy() followed by the four new columns set to ''
NewResults(t) == AddColumns(t, ExtractedColumns, <<>>)

\* result.get(key, 'Not found')
Get(d, k) == IF k \in DOMAIN d THEN d[k] ELSE NotFound

\* a loop that labels the rows from 1
RowLabelOffByOne(k) == k + 1

\* the label used in results_df.at[i, ...]
RowLabel(k) == k

\* cells recorded for a row whose run() returned a dict
SuccessCells(d) == [k \in 1..4 |-> Get(d, ResultKeys[k])]

\* a failed row recorded like a row without data
FailureCellsNotFound == [k \in 1..4 |-> NotFound]

\* cells recorded for a row whose run() returned None
FailureCells == [k \in 1..4 |-> Error]

\* cells recorded for a row whose processing raised e
RaisedCells(e) == [k \in 1..4 |-> IF k = 1 THEN <<"Error: ", e>> ELSE Error]

Min2(a, b) == IF a <= b THEN a ELSE b

----------------------------------------------------------------------------
(* URLs *)

Base == "https://betterproposals.io/2/"
SEG_VIEW == "proposals/view"
SEG_LOGIN == "/login/"

login_url == <<Base, SEG_LOGIN>>
DashboardUrl == <<Base, "dashboard">>
OtherViewUrl == <<Base, SEG_VIEW, "?id=0">>
StartUrl == <<"data:,">>

DocIds == <<"?id=1", "?id=2", "?id=3", "?id=4">>
DocView(k) == <<Base, SEG_VIEW, DocIds[k]>>

\* a in b, for str
Within(a, b) ==
    \E k \in 0..(Len(b) - Len(a)) : SubSeq(b, k + 1, k + Len(a)) = a

\* where the browser can end up after a navigation while working on doc
Urls(doc) == {doc, login_url, DashboardUrl, OtherViewUrl}

----------------------------------------------------------------------------
(* Input tables *)

CompanyNames == <<"Acme 1", "Acme 2", "Acme 3", "Acme 4">>

Schemas ==
    {<<"Company", "Document type">>,
     <<"Company", "Document type", "Extracted Signed by">>,
     <<"Document type", "Value">>}

SheetCell(col, k, doc) ==
    CASE col = "Company" -> <<CompanyNames[k]>>
      [] col = "Document type" -> doc
      [] col = "Value" -> <<"$33,200.00">>
      [] OTHER -> <<"old">>

DocUrl(kind, k) == IF kind = "view" THEN DocView(k) ELSE DashboardUrl

\* the tables the spreadsheet export can return; index labels are 0..n-1.
\* At most one row of a sheet points at a page that is not a document, and a
\* sheet that already has one of the result columns has at most one row
SheetTables ==
    UNION {{Table(cols, [k \in 1..n |->
                     [idx |-> k - 1,
                      cells |-> [c \in Range(cols) |->
                                    SheetCell(c, k, DocUrl(docs[k], k))]]]) :
               cols \in {c \in Schemas :
                           "Extracted Signed by" \in Range(c) => n <= 1},
               docs \in {d \in [1..n -> {"view", "dashboard"}] :
                            Cardinality({k \in 1..n : d[k] = "dashboard"}) <= 1}} :
           n \in 0..MaxRows}

SampleColumns ==
    <<"Company", "Document type", "Value", "Date Created", "Signed On", "Signed by">>

SampleRows ==
    <<[Company |-> "BHA Strategy", id |-> "?id=2366358", Value |-> "$33,200.00",
       Created |-> "18 Mar 2025", SignedOn |-> "08 May 2025", SignedBy |-> "Katy Sully"],
      [Company |-> "Integrity Design", id |-> "?id=2392944", Value |-> "$41,920.00",
       Created |-> "04 Apr 2025", SignedOn |-> "30 Apr 2025", SignedBy |-> "Brandon Earls"],
      [Company |-> "Providence Diamond", id |-> "?id=2423564", Value |-> "$39,710.00",
       Created |-> "29 Apr 2025", SignedOn |-> "30 Apr 2025", SignedBy |-> "Daniel Pritsker"]>>

SampleTable ==
    Table(SampleColumns,
          [k \in 1..3 |->
              [idx |-> k - 1,
               cells |-> [c \in Range(SampleColumns) |->
                            CASE c = "Company" -> <<SampleRows[k].Company>>
                              [] c = "Document type" -> <<Base, SEG_VIEW, SampleRows[k].id>>
                              [] c = "Value" -> <<SampleRows[k].Value>>
                              [] c = "Date Created" -> <<SampleRows[k].Created>>
                              [] c = "Signed On" -> <<SampleRows[k].SignedOn>>
                              [] c = "Signed by" -> <<SampleRows[k].SignedBy>>]]])

----------------------------------------------------------------------------
(* Specification of the field derivation alone: parse_with_openai applied  *)
(* to the raw data of every page in Pages.                                 *)

BatchIdle ==
    /\ df = NoneV /\ results_df = NoneV
    /\ max_urls = 0 /\ urls_to_process = 0 /\ i = 0
    /\ attempted = <<>> /\ csv_file = NoneV
    /\ document_url = <<>> /\ driver = "None" /\ sessions = {}
    /\ current_url = <<>> /\ result = NoneV /\ log = <<>> /\ outcome = <<>>

InitParse ==
    /\ BatchIdle
    /\ pc = "fd_page"
    /\ page \in Pages
    /\ api_key \in BOOLEAN
    /\ raw_data = NoRaw
    /\ parsed_data = NoData
    /\ requests = 0

FdExtract ==
    /\ pc = "fd_page"
    /\ raw_data' = ExtractRaw(page)
    /\ pc' = "fd_raw"
    /\ UNCHANGED <<df, results_df, max_urls, urls_to_process, i, api_key,
                   attempted, csv_file, document_url, driver, sessions,
                   current_url, page, parsed_data, result, requests, log, outcome>>

FdParse ==
    /\ pc = "fd_raw"
    /\ \E raised \in BOOLEAN, reply \in Replies :
          LET r == parse_with_openai(raw_data, api_key, raised, reply)
          IN  /\ parsed_data' = r.data
              /\ requests' = r.requests
              /\ log' = <<IF raised THEN "raised" ELSE reply.kind>>
    /\ pc' = "fd_done"
    /\ UNCHANGED <<df, results_df, max_urls, urls_to_process, i, api_key,
                   attempted, csv_file, document_url, driver, sessions,
                   current_url, page, raw_data, result, outcome>>

NextParse == FdExtract \/ FdParse

SpecParse == InitParse /\ [][NextParse]_vars

\* the value derived directly from the first sentByCandidates entry
DirectSentBy(raw) == Strip(Remove(raw.sent_by_blocks[1].text, MARK))

\* C3: whenever raw extraction captured at least one "Sent by" candidate, the
\* 'Sent by' value parse_with_openai returns is the first candidate's title
\* text with the marker and the surrounding whitespace removed, on every path.
C3_SentByIsDirect ==
    (pc = "fd_done" /\ raw_data.sent_by_blocks # <<>>)
        => parsed_data["Sent by"] = DirectSentBy(raw_data)

\* C6: without a model-service credential parse_with_openai issues no request
\* and returns exactly the four keys with the values manual_extract produces
\* for the same raw data.
C6_NoKeyIsPatternTier ==
    (pc = "fd_done" /\ ~api_key)
        => /\ requests = 0
           /\ DOMAIN parsed_data = Keys
           /\ parsed_data = manual_extract(raw_data, NotFound)

C6_Witness ==
    /\ pc = "fd_done" /\ ~api_key /\ log # <<"raised">>
    /\ Len(raw_data.sent_by_blocks) = 2
    /\ parsed_data["Sent by"] = <<"Jane">>
    /\ parsed_data["Signed by"] = <<"Jane Doe">>

----------------------------------------------------------------------------
(* Specification of check_authentication_status alone: the check applied   *)
(* to an open session at every URL in AuthUrls and every outcome of its    *)
(* two DOM probes.                                                         *)

SEG_DASHBOARD == "dashboard"

UrlTokens == {SEG_VIEW, SEG_DASHBOARD, SEG_LOGIN, "account"}

\* driver.current_url: the site's base followed by path segments
AuthUrls == {<<Base>> \o u : u \in SeqsUpTo(UrlTokens, MaxUrlLen)}

\* login_form: find_element(By.ID, "form_login") returns an element, raises
\* NoSuchElementException, or raises another error; user_menu:
\* find_elements(By.CLASS_NAME, "user-menu") returns a non-empty list, an
\* empty list, or raises
Probes == {"present", "absent", "raises"}
AuthDoms == [login_form : Probes, user_menu : Probes]

\* the login branch consulted before the document-view / dashboard branch
check_authentication_status_login_first(url, dom) ==
    IF SEG_LOGIN \in Range(url)
    THEN IF dom.login_form = "present" THEN "False"
         ELSE IF dom.login_form = "raises" THEN "raised"
         ELSE IF dom.user_menu = "present" THEN "True" ELSE "False"
    ELSE IF SEG_VIEW \in Range(url) \/ SEG_DASHBOARD \in Range(url) THEN "True"
    ELSE IF dom.user_menu = "present" THEN "True" ELSE "False"

\* "True" / "False": the value returned; "raised": the error of the login
\* form probe, which only NoSuchElementException is caught for, escapes
check_authentication_status(url, dom) ==
    IF SEG_VIEW \in Range(url) \/ SEG_DASHBOARD \in Range(url) THEN "True"
    ELSE IF SEG_LOGIN \in Range(url)
    THEN IF dom.login_form = "present" THEN "False"
         ELSE IF dom.login_form = "raises" THEN "raised"
         ELSE IF dom.user_menu = "present" THEN "True" ELSE "False"
    ELSE IF dom.user_menu = "present" THEN "True" ELSE "False"

AuthEvent(r) ==
    CASE r = "True" -> "check_authentication_status:True"
      [] r = "False" -> "check_authentication_status:False"
      [] r = "raised" -> "check_authentication_status:raised"

InitAuth ==
    /\ pc = "auth_page"
    /\ current_url \in AuthUrls
    /\ page \in AuthDoms
    /\ driver = "open" /\ sessions = {0}
    /\ df = NoneV /\ results_df = NoneV
    /\ max_urls = 0 /\ urls_to_process = 0 /\ i = 0
    /\ api_key = FALSE /\ attempted = <<>> /\ csv_file = NoneV
    /\ document_url = <<>> /\ raw_data = NoRaw /\ parsed_data = NoData
    /\ result = NoneV /\ requests = 0 /\ log = <<>> /\ outcome = <<>>

CheckAuthenticationStatus ==
    /\ pc = "auth_page"
    /\ log' = <<AuthEvent(check_authentication_status(current_url, page))>>
    /\ pc' = "auth_done"
    /\ UNCHANGED <<df, results_df, max_urls, urls_to_process, i, api_key,
                   attempted, csv_file, document_url, driver, sessions,
                   current_url, page, raw_data, parsed_data, result, requests,
                   outcome>>

NextAuth == CheckAuthenticationStatus

SpecAuth == InitAuth /\ [][NextAuth]_vars

\* the ordered first-match policy
Authenticated(url, dom) ==
    IF SEG_VIEW \in Range(url) \/ SEG_DASHBOARD \in Range(url) THEN TRUE
    ELSE IF SEG_LOGIN \in Range(url)
    THEN dom.login_form = "absent" /\ dom.user_menu = "present"
    ELSE dom.user_menu = "present"

\* C11: for every URL and every outcome of the login-form probe (present or
\* absent) and of the user-menu probe (present, absent or failing),
\* check_authentication_status returns what the ordered first-match policy
\* gives, a failing user-menu probe counting as absent, and it changes
\* nothing of the session.
C11_AuthPolicy ==
    /\ []((pc = "auth_done" /\ page.login_form # "raises") =>
            log = <<IF Authenticated(current_url, page)
                    THEN "check_authentication_status:True"
                    ELSE "check_authentication_status:False">>)
    /\ [][pc = "auth_page" =>
            UNCHANGED <<current_url, driver, sessions, page>>]_vars

C11_Witness ==
    /\ pc = "auth_done"
    /\ SEG_LOGIN \in Range(current_url) /\ SEG_VIEW \in Range(current_url)
    /\ page.login_form = "present"
    /\ log = <<"check_authentication_status:True">>

----------------------------------------------------------------------------
(* Specification of the pattern tier alone: manual_extract applied to the   *)
(* raw data of a page with every certificate fragment in Certificates and  *)
(* no timeline.                                                            *)

CertTokens == {LBY, LON, LIP, VALUE_OPEN, DIV_CLOSE, SP, "Jane Doe"}

\* certificate_section.get_attribute('outerHTML')
Certificates == SeqsUpTo(CertTokens, MaxCertLen)

InitPattern ==
    /\ BatchIdle
    /\ pc = "pt_page"
    /\ page \in {[certTimeout |-> FALSE, certificate |-> c, blocks |-> <<>>] :
                    c \in Certificates}
    /\ api_key = FALSE
    /\ raw_data = NoRaw
    /\ parsed_data = NoData
    /\ requests = 0

PtExtract ==
    /\ pc = "pt_page"
    /\ raw_data' = ExtractRaw(page)
    /\ pc' = "pt_raw"
    /\ UNCHANGED <<df, results_df, max_urls, urls_to_process, i, api_key,
                   attempted, csv_file, document_url, driver, sessions,
                   current_url, page, parsed_data, result, requests, log, outcome>>

PtManual ==
    /\ pc = "pt_raw"
    /\ parsed_data' = manual_extract(raw_data, NotFound)
    /\ pc' = "pt_done"
    /\ UNCHANGED <<df, results_df, max_urls, urls_to_process, i, api_key,
                   attempted, csv_file, document_url, driver, sessions,
                   current_url, page, raw_data, result, requests, log, outcome>>

NextPattern == PtExtract \/ PtManual

SpecPattern == InitPattern /\ [][NextPattern]_vars

\* what follows the first tok of s
RECURSIVE After(_, _)
After(s, tok) ==
    IF s = <<>> THEN [found |-> FALSE, rest |-> <<>>]
    ELSE IF Head(s) = tok THEN [found |-> TRUE, rest |-> Tail(s)]
    ELSE After(Tail(s), tok)

\* what precedes the first tok of s
RECURSIVE Before(_, _)
Before(s, tok) ==
    IF s = <<>> THEN [found |-> FALSE, part |-> <<>>]
    ELSE IF Head(s) = tok THEN [found |-> TRUE, part |-> <<>>]
    ELSE [found |-> Before(Tail(s), tok).found,
          part |-> <<Head(s)>> \o Before(Tail(s), tok).part]

\* the trimmed content of the first certificate-value element after the first
\* occurrence of the label, 'Not found' without the label or such an element
FieldOf(html, label) ==
    IF ~After(html, label).found THEN NotFound
    ELSE IF ~After(After(html, label).rest, VALUE_OPEN).found THEN NotFound
    ELSE IF ~Before(After(After(html, label).rest, VALUE_OPEN).rest,
                    DIV_CLOSE).found THEN NotFound
    ELSE Strip(Before(After(After(html, label).rest, VALUE_OPEN).rest,
                      DIV_CLOSE).part)

\* C15: in the pattern tier each of the three certificate fields is the
\* trimmed content of the first certificate-value element that follows the
\* first occurrence of its own label, and 'Not found' when the label is absent
\* or no value element follows it, whatever the other two fields are.
C15_FieldsIndependent ==
    pc = "pt_done" =>
        /\ DOMAIN parsed_data = Keys
        /\ parsed_data["Signed by"] = FieldOf(page.certificate, LBY)
        /\ parsed_data["Signed date"] = FieldOf(page.certificate, LON)
        /\ parsed_data["IP address"] = FieldOf(page.certificate, LIP)
        /\ parsed_data["Sent by"] = NotFound

C15_Witness ==
    /\ pc = "pt_done"
    /\ page.certificate = <<LBY, VALUE_OPEN, "Jane Doe", DIV_CLOSE, LON>>
    /\ parsed_data["Signed by"] = <<"Jane Doe">>
    /\ parsed_data["Signed date"] = NotFound
    /\ parsed_data["IP address"] = NotFound

----------------------------------------------------------------------------
(* The batch: process_urls_from_sheet driving one scraper.run() per row     *)

Init ==
    /\ pc = "start"
    /\ max_urls \in -1..MaxRows
    /\ api_key \in BOOLEAN
    /\ df = NoneV /\ results_df = NoneV
    /\ urls_to_process = 0 /\ i = 0
    /\ attempted = <<>> /\ csv_file = NoneV
    /\ document_url = <<>> /\ driver = "None" /\ sessions = {}
    /\ current_url = <<>> /\ page = NoPage /\ raw_data = NoRaw
    /\ parsed_data = NoData /\ result = NoneV /\ requests = 0
    /\ log = <<>> /\ outcome = <<>>

rowVars == <<document_url, driver, sessions, current_url, page, raw_data,
             parsed_data, result, requests, log>>
tableVars == <<df, results_df, max_urls, urls_to_process, api_key,
               attempted, csv_file>>

\* read_google_sheet: returns the table, or None when the read raised; it
\* never raises itself, so the except branch of the caller is not taken
ReadGoogleSheet ==
    /\ pc = "start"
    /\ \/ df' = NoneV
       \/ \E sheet \in SheetTables : df' = sheet
    /\ attempted' = Append(attempted, "read_google_sheet")
    /\ pc' = "loaded"
    /\ UNCHANGED <<results_df, max_urls, urls_to_process, i, api_key,
                   csv_file, outcome>>
    /\ UNCHANGED rowVars

IsEmpty(t) == t.none \/ Len(t.rows) = 0

\* the sample fallback, the copy with the four new columns, the row cap
PrepareResults ==
    /\ pc = "loaded"
    /\ LET d == IF IsEmpty(df) THEN SampleTable ELSE df
       IN  /\ df' = d
           /\ attempted' = IF IsEmpty(df) THEN Append(attempted, "sample")
                                          ELSE attempted
           /\ results_df' = NewResults(d)
           /\ urls_to_process' = Min2(max_urls, Len(d.rows))
    /\ i' = 0
    /\ pc' = "loop"
    /\ UNCHANGED <<max_urls, api_key, csv_file, outcome>>
    /\ UNCHANGED rowVars

HasInputColumns == {"Company", "Document type"} \subseteq Range(df.columns)

\* reading the row and constructing its scraper
RowStart ==
    /\ pc = "loop" /\ i < urls_to_process
    /\ HasInputColumns
    /\ document_url' = df.rows[i + 1].cells["Document type"]
    /\ driver' = "None"
    /\ current_url' = <<>>
    /\ page' = NoPage /\ raw_data' = NoRaw /\ parsed_data' = NoData
    /\ result' = NoneV /\ requests' = 0
    /\ log' = <<>>
    /\ pc' = "setup"
    /\ UNCHANGED <<i, sessions, outcome>>
    /\ UNCHANGED tableVars

\* reading the row raises KeyError: the except branch of the loop body
RowRaises ==
    /\ pc = "loop" /\ i < urls_to_process
    /\ ~HasInputColumns
    /\ LET e == IF "Company" \in Range(df.columns) THEN "'Document type'"
                                                   ELSE "'Company'"
       IN  results_df' = WriteRow(results_df, RowLabel(i), RaisedCells(e))
    /\ outcome' = Append(outcome, [status |-> "raised", tier |-> "none"])
    /\ log' = <<>>
    /\ i' = i + 1
    /\ UNCHANGED <<pc, df, max_urls, urls_to_process, api_key, attempted,
                   csv_file, document_url, driver, sessions, current_url, page,
                   raw_data, parsed_data, result, requests>>

\* setup_driver: uc.Chrome(...) then maximize_window(); on failure run()
\* returns None without calling cleanup
SetupDriver ==
    /\ pc = "setup"
    /\ \/ /\ driver' = "open"
          /\ sessions' = sessions \cup {i}
          /\ current_url' = StartUrl
          /\ log' = Append(log, "setup_driver:True")
          /\ pc' = "nav_direct"
          /\ UNCHANGED result
       \/ /\ \E created \in BOOLEAN :
                /\ driver' = IF created THEN "open" ELSE "None"
                /\ sessions' = IF created THEN sessions \cup {i} ELSE sessions
          /\ log' = Append(log, "setup_driver:False")
          /\ result' = NoneV
          /\ pc' = "record"
          /\ UNCHANGED current_url
    /\ UNCHANGED <<i, outcome, document_url, page, raw_data, parsed_data, requests>>
    /\ UNCHANGED tableVars

\* cleanup(): driver.quit() when a driver was created, errors swallowed; the
\* session and the URL it showed are gone afterwards
SessionsAfterCleanup == IF driver # "None" THEN sessions \ {i} ELSE sessions
DriverAfterCleanup == IF driver # "None" THEN "quit" ELSE driver

\* run() that logs in without looking at the direct navigation
AfterDirectAlwaysLogin(ok) == "login"

\* where run() goes after its own navigate_directly_to_document
AfterDirect(ok) == IF ok THEN "extract" ELSE "login"

\* run(): navigate_directly_to_document
NavigateDirectly ==
    /\ pc = "nav_direct"
    /\ \E raises \in BOOLEAN, u \in Urls(document_url) :
          LET url == IF raises THEN current_url ELSE u
              ok == ~raises /\ SEG_VIEW \in Range(url)
          IN  /\ current_url' = url
              /\ log' = Append(log, IF ok THEN "navigate_directly_to_document:True"
                                          ELSE "navigate_directly_to_document:False")
              /\ pc' = AfterDirect(ok)
    /\ UNCHANGED <<i, outcome, document_url, driver, sessions, page, raw_data,
                   parsed_data, result, requests>>
    /\ UNCHANGED tableVars

\* login(): its own navigate_directly_to_document, then the move to the login
\* page when the browser is not on it. Each element is one way this can go:
\* direct = the document opened, aborted = driver.get(login_url) raised
LoginEntries(url0, doc) ==
    {[direct |-> ~raises /\ SEG_VIEW \in Range(u),
      aborted |-> getRaises /\ ~(~raises /\ SEG_VIEW \in Range(u))
                            /\ SEG_LOGIN \notin Range(IF raises THEN url0 ELSE u),
      url |-> LET url1 == IF raises THEN url0 ELSE u
              IN  IF (~raises /\ SEG_VIEW \in Range(u)) \/ SEG_LOGIN \in Range(url1)
                     \/ getRaises
                  THEN url1 ELSE u2,
      events |-> LET url1 == IF raises THEN url0 ELSE u
                 IN  IF ~raises /\ SEG_VIEW \in Range(u)
                     THEN <<"navigate_directly_to_document:True">>
                     ELSE IF SEG_LOGIN \in Range(url1)
                     THEN <<"navigate_directly_to_document:False">>
                     ELSE <<"navigate_directly_to_document:False", "get_login_url">>] :
        raises \in BOOLEAN, u \in Urls(doc), getRaises \in BOOLEAN, u2 \in Urls(doc)}

\* login() returns True without submitting: the document opened directly
LoginSkipped ==
    /\ pc = "login"
    /\ \E e \in LoginEntries(current_url, document_url) :
          /\ e.direct
          /\ current_url' = e.url
          /\ log' = log \o <<"login">> \o e.events \o <<"login:True">>
    /\ pc' = "nav_doc"
    /\ UNCHANGED <<i, outcome, document_url, driver, sessions, page, raw_data,
                   parsed_data, result, requests>>
    /\ UNCHANGED tableVars

\* login() returns False before any submit: driver.get(login_url) raised, a
\* field wait timed out, no submit button, or the click raised; run() then
\* calls cleanup and returns None
LoginAborted ==
    /\ pc = "login"
    /\ \E e \in LoginEntries(current_url, document_url) :
          /\ ~e.direct
          /\ \E why \in {"get_raised", "timeout", "no_button", "click_raised"} :
                /\ (why = "get_raised") = e.aborted
                /\ log' = log \o <<"login">> \o e.events
                              \o <<why, "login:False", "quit">>
    /\ current_url' = <<>>
    /\ driver' = DriverAfterCleanup
    /\ sessions' = SessionsAfterCleanup
    /\ result' = NoneV
    /\ pc' = "record"
    /\ UNCHANGED <<i, outcome, document_url, page, raw_data, parsed_data, requests>>
    /\ UNCHANGED tableVars

\* the document-view segment taken for the sign of a successful login
LoginOkOnDocument(url) == SEG_VIEW \in Range(url)

\* `"/login/" not in self.driver.current_url` after the submit
LoginOk(url) == SEG_LOGIN \notin Range(url)

\* login() fills the fields and clicks the submit button once, then reads the
\* URL again: success exactly when it is not a login URL
LoginSubmitted ==
    /\ pc = "login"
    /\ \E e \in LoginEntries(current_url, document_url), u3 \in Urls(document_url) :
          LET ok == LoginOk(u3)
          IN  /\ ~e.direct /\ ~e.aborted
              /\ current_url' = IF ok THEN u3 ELSE <<>>
              /\ log' = log \o <<"login">> \o e.events \o <<"submit">>
                            \o <<IF SEG_LOGIN \in Range(u3) THEN "reread:login"
                                                             ELSE "reread:other">>
                            \o (IF ok THEN <<"login:True">>
                                      ELSE <<"login:False", "quit">>)
              /\ driver' = IF ok THEN driver ELSE DriverAfterCleanup
              /\ sessions' = IF ok THEN sessions ELSE SessionsAfterCleanup
              /\ result' = NoneV
              /\ pc' = IF ok THEN "nav_doc" ELSE "record"
    /\ UNCHANGED <<i, outcome, document_url, page, raw_data, parsed_data, requests>>
    /\ UNCHANGED tableVars

\* a Document Locator that navigates in any case
NeverOnDocument(doc, url) == FALSE

\* `self.document_url in current_url`
AlreadyOnDocument(doc, url) == Within(doc, url)

\* navigate_to_document: no navigation when the URL already holds the target
NavigateToDocument ==
    /\ pc = "nav_doc"
    /\ \/ /\ AlreadyOnDocument(document_url, current_url)
          /\ log' = Append(log, "navigate_to_document:True")
          /\ pc' = "extract"
          /\ UNCHANGED <<current_url, driver, sessions, result>>
       \/ /\ ~AlreadyOnDocument(document_url, current_url)
          /\ \E raises \in BOOLEAN, u \in Urls(document_url) :
                LET url == IF raises THEN current_url ELSE u
                    ok == ~raises /\ SEG_VIEW \in Range(url)
                IN  /\ current_url' = IF ok THEN url ELSE <<>>
                    /\ log' = log \o <<"get_document">>
                                  \o <<IF raises THEN "get_document:raised"
                                       ELSE IF SEG_VIEW \in Range(url)
                                       THEN "shows:view" ELSE "shows:other">>
                                  \o (IF ok THEN <<"navigate_to_document:True">>
                                            ELSE <<"navigate_to_document:False", "quit">>)
                    /\ driver' = IF ok THEN driver ELSE DriverAfterCleanup
                    /\ sessions' = IF ok THEN sessions ELSE SessionsAfterCleanup
                    /\ pc' = IF ok THEN "extract" ELSE "record"
                    /\ result' = NoneV
    /\ UNCHANGED <<i, outcome, document_url, page, raw_data, parsed_data, requests>>
    /\ UNCHANGED tableVars

\* the pages a row of the batch can meet: a signed document, and one whose
\* certificate element is not there before the wait expires
PageSamples ==
    {[certTimeout |-> FALSE, certificate |-> SignedCertificate,
      blocks |-> <<[hasTitle |-> TRUE, title |-> <<MARK, SP, "Jane">>]>>],
     [certTimeout |-> TRUE, certificate |-> SignedCertificate,
      blocks |-> <<[hasTitle |-> FALSE, title |-> <<>>],
                   [hasTitle |-> TRUE, title |-> <<MARK, SP, "Jane">>]>>]}

\* extract_certificate_info: the raw data, or None when a driver call raised
ExtractCertificateInfo ==
    /\ pc = "extract"
    /\ \/ /\ \E p \in PageSamples :
                /\ page' = p
                /\ raw_data' = ExtractRaw(p)
          /\ log' = Append(log, "extract_certificate_info:data")
          /\ pc' = "parse"
          /\ UNCHANGED <<driver, sessions, result, current_url>>
       \/ /\ log' = log \o <<"extract_certificate_info:None", "quit">>
          /\ driver' = DriverAfterCleanup
          /\ sessions' = SessionsAfterCleanup
          /\ result' = NoneV
          /\ pc' = "record"
          /\ current_url' = <<>>
          /\ UNCHANGED <<page, raw_data>>
    /\ UNCHANGED <<i, outcome, document_url, parsed_data, requests>>
    /\ UNCHANGED tableVars

\* the log entry of a model-service request, by the kind of its answer
RequestEvent(kind) ==
    CASE kind = "transport" -> "request:transport"
      [] kind = "bad_json" -> "request:bad_json"
      [] kind = "non_object" -> "request:non_object"
      [] kind = "object" -> "request:object"

\* parse_with_openai, then cleanup and the return of the parsed data
ParseWithOpenAI ==
    /\ pc = "parse"
    /\ \E raised \in BOOLEAN, reply \in Replies :
          LET r == parse_with_openai(raw_data, api_key, raised, reply)
          IN  /\ parsed_data' = r.data
              /\ requests' = r.requests
              /\ result' = [none |-> FALSE, data |-> r.data]
              /\ log' = log \o <<"parse_with_openai">>
                            \o (IF r.requests = 0 THEN <<>>
                                ELSE <<RequestEvent(reply.kind)>>)
                            \o <<"quit">>
    /\ driver' = DriverAfterCleanup
    /\ sessions' = SessionsAfterCleanup
    /\ pc' = "record"
    /\ current_url' = <<>>
    /\ UNCHANGED <<i, outcome, document_url, page, raw_data>>
    /\ UNCHANGED tableVars

\* `if result:` for what run() returned
Truthy(r) == ~r.none /\ DOMAIN r.data # {}

\* which tier produced the parsed data of the current row
TierOf(l) ==
    IF "parse_with_openai" \notin Range(l) THEN "none"
    ELSE IF "request:object" \in Range(l) THEN "model"
    ELSE IF \E k \in DOMAIN l : l[k] \in {"request:transport", "request:bad_json",
                                          "request:non_object"}
    THEN "fallback"
    ELSE "pattern"

\* the loop body after run(): the row's four cells; the scraper and the
\* result of the row are dropped when the loop moves on
RecordResult ==
    /\ pc = "record"
    /\ results_df' = WriteRow(results_df, RowLabel(i),
                              IF Truthy(result) THEN SuccessCells(result.data)
                                                ELSE FailureCells)
    /\ outcome' = Append(outcome,
                         [status |-> IF Truthy(result) THEN "ok" ELSE "failed",
                          tier |-> TierOf(log)])
    /\ i' = i + 1
    /\ pc' = "loop"
    /\ document_url' = <<>> /\ driver' = "None" /\ current_url' = <<>>
    /\ page' = NoPage /\ raw_data' = NoRaw /\ parsed_data' = NoData
    /\ result' = NoneV /\ requests' = 0 /\ log' = <<>>
    /\ UNCHANGED <<df, max_urls, urls_to_process, api_key, attempted, csv_file,
                   sessions>>

\* the table written only when no row failed
SaveCsvUnlessFailed ==
    /\ pc = "loop" /\ i >= urls_to_process
    /\ csv_file' = IF \E k \in DOMAIN outcome : outcome[k].status # "ok"
                   THEN csv_file ELSE results_df
    /\ pc' = "done"
    /\ UNCHANGED <<df, results_df, max_urls, urls_to_process, i, api_key,
                   attempted, outcome>>
    /\ UNCHANGED rowVars

\* results_df.to_csv("proposal.csv") after the loop
SaveCsv ==
    /\ pc = "loop" /\ i >= urls_to_process
    /\ csv_file' = results_df
    /\ pc' = "done"
    /\ UNCHANGED <<df, results_df, max_urls, urls_to_process, i, api_key,
                   attempted, outcome>>
    /\ UNCHANGED rowVars

Next ==
    \/ ReadGoogleSheet \/ PrepareResults
    \/ RowStart \/ RowRaises
    \/ SetupDriver \/ NavigateDirectly
    \/ LoginSkipped \/ LoginAborted \/ LoginSubmitted
    \/ NavigateToDocument
    \/ ExtractCertificateInfo \/ ParseWithOpenAI
    \/ RecordResult \/ SaveCsv

Spec == Init /\ [][Next]_vars

FairSpec == Spec /\ WF_vars(Next)

----------------------------------------------------------------------------
(* Properties of the batch *)

Max2(a, b) == IF a >= b THEN a ELSE b

Prepared == pc \notin {"start", "loaded", "fd_page", "fd_raw", "fd_done"}

\* the four extracted cells of the k-th row of a table
CellsOf(t, k) == [j \in 1..4 |-> t.rows[k].cells[ExtractedColumns[j]]]

SameShape(out, in) ==
    /\ Len(out.rows) = Len(in.rows)
    /\ \A k \in DOMAIN in.rows :
          /\ out.rows[k].idx = in.rows[k].idx
          /\ out.rows[k].cells["Document type"] = in.rows[k].cells["Document type"]

\* C1: after a batch the output table has exactly one row per input row, in
\* the order of the input, whatever the rows' outcomes and the row cap.
C1_OneRowPerInputRow ==
    /\ Prepared => SameShape(results_df, df)
    /\ pc = "done" => SameShape(csv_file, df)

C1_Witness ==
    /\ pc = "done" /\ Len(df.rows) = 3 /\ max_urls = 2
    /\ outcome[1].status = "ok" /\ outcome[2].status = "failed"
    /\ Len(csv_file.rows) = 3

\* C2: processing a batch leaves every original input column of every row
\* unchanged in the output table, also when the input table already has a
\* column named like one of the four added columns.
C2_InputColumnsUnchanged ==
    pc = "done" =>
        \A k \in DOMAIN df.rows : \A c \in Range(df.columns) :
            /\ k \in DOMAIN csv_file.rows
            /\ csv_file.rows[k].cells[c] = df.rows[k].cells[c]

IsErrorCells(c) ==
    /\ c[1] = Error \/ (Len(c[1]) = 2 /\ c[1][1] = "Error: ")
    /\ c[2] = Error /\ c[3] = Error /\ c[4] = Error

RowFails ==
    \/ pc = "record" /\ ~Truthy(result)
    \/ pc = "loop" /\ i < urls_to_process /\ ~HasInputColumns

\* C4: a row whose pipeline fails at any stage gets 'Error' in its four
\* extracted columns (the first possibly 'Error: <message>'), no other row
\* changes, and the loop goes on with the next row up to the cap.
C4_FailedRowIsError ==
    /\ [][RowFails =>
            /\ IsErrorCells(CellsOf(results_df', i + 1))
            /\ Len(results_df'.rows) = Len(results_df.rows)
            /\ \A k \in DOMAIN results_df.rows :
                  k # i + 1 => results_df'.rows[k] = results_df.rows[k]
            /\ i' = i + 1 /\ pc' = "loop"]_vars
    /\ [](pc = "done" => Len(outcome) = Max2(urls_to_process, 0))

C4_Witness ==
    /\ pc = "done" /\ Len(csv_file.rows) = 3 /\ Len(outcome) = 2
    /\ outcome[1].status = "failed" /\ outcome[2].status = "ok"
    /\ CellsOf(csv_file, 1) = FailureCells
    /\ CellsOf(csv_file, 2)[4] = <<"Jane">>
    /\ CellsOf(csv_file, 3) = <<<<>>, <<>>, <<>>, <<>>>>

\* C5: the browser session of a row is torn down before the next row's
\* session is created, on every exit path of run(); no two sessions are open
\* at once and none stays open after the batch.
C5_OneSessionAtATime ==
    /\ Cardinality(sessions) <= 1
    /\ pc \in {"setup", "done"} => sessions = {}

\* C7: when raw extraction succeeded and the model-tier request fails in
\* transport or returns unparseable output, the row's result is the
\* pattern-tier result seeded with the directly derived sentBy, the row is a
\* success and none of its cells is 'Error'.
C7_ModelFailureFallsBack ==
    [][(pc = "record" /\ TierOf(log) = "fallback") =>
          /\ Truthy(result)
          /\ CellsOf(results_df', i + 1) =
                SuccessCells(manual_extract(raw_data,
                                BlocksSentBy(raw_data.sent_by_blocks, NotFound)))
          /\ \A j \in 1..4 : CellsOf(results_df', i + 1)[j] # Error
          /\ outcome'[i + 1] = [status |-> "ok", tier |-> "fallback"]]_vars

C7_Witness ==
    /\ pc = "loop" /\ Len(outcome) = 1
    /\ outcome[1] = [status |-> "ok", tier |-> "fallback"]
    /\ CellsOf(results_df, 1) =
          <<<<"Jane Doe">>, <<"08 May 2025">>, <<"10.0.0.1">>, <<"Jane">>>>

\* C8: input loading tries the direct export read first, then the alternate
\* download when the direct read fails, and uses the built-in sample table
\* only after both remote reads failed or returned no rows.
C8_SourcesInOrder ==
    "sample" \in Range(attempted) =>
        attempted = <<"read_google_sheet", "download_google_sheet", "sample">>

\* C9: every batch that starts eventually writes the output table to
\* proposal.csv, whatever the rows' outcomes, and only after the cells of the
\* last processed row were recorded.
C9_TableAlwaysWritten ==
    /\ (pc = "start") ~> (~csv_file.none)
    /\ [](~csv_file.none =>
            /\ i = Max2(urls_to_process, 0)
            /\ Len(outcome) = i
            /\ csv_file = results_df)

C9_Witness ==
    /\ pc = "done" /\ ~csv_file.none
    /\ Len(outcome) = 2
    /\ \A k \in 1..2 : outcome[k].status = "failed"
    /\ \A k \in 1..2 : CellsOf(csv_file, k) = FailureCells

\* C10 as stated: credentials are submitted only after
\* check_authentication_status was consulted and reported not authenticated.
C10_AuthCheckBeforeSubmit ==
    \A k \in DOMAIN log :
        log[k] = "submit" =>
            \E j \in 1..(k - 1) : log[j] = "check_authentication_status:False"

\* C10 (amended): for every row the stages run in the order session open,
\* direct-navigation probe, login, Document Locator, Extraction Engine:
\* credentials are submitted only after navigate_directly_to_document reported
\* failure in run() and again inside login(), navigate_to_document runs only
\* after login() returned True, and extraction only right after a successful
\* navigate_directly_to_document of run() or a successful navigate_to_document.
C10_StageOrder ==
    /\ log # <<>> /\ pc \notin {"fd_done"} =>
          log[1] \in {"setup_driver:True", "setup_driver:False"}
    /\ \A k \in DOMAIN log :
          /\ log[k] = "login" =>
                /\ k = 3 /\ log[1] = "setup_driver:True"
                /\ log[2] = "navigate_directly_to_document:False"
          /\ log[k] = "submit" =>
                /\ k > 4 /\ log[3] = "login"
                /\ log[4] = "navigate_directly_to_document:False"
          /\ log[k] \in {"get_document", "navigate_to_document:True",
                         "navigate_to_document:False"} =>
                \E j \in 1..(k - 1) : log[j] = "login:True"
          /\ log[k] \in {"extract_certificate_info:data",
                         "extract_certificate_info:None"} =>
                \/ k = 3 /\ log[2] = "navigate_directly_to_document:True"
                \/ k > 3 /\ log[k - 1] = "navigate_to_document:True"

C10_Witness ==
    /\ pc = "parse"
    /\ "submit" \in Range(log)
    /\ "get_document" \in Range(log)

----------------------------------------------------------------------------
(* Properties of the login flow and the Document Locator *)

Count(l, e) == Cardinality({k \in DOMAIN l : l[k] = e})

LoginReturned == "login:True" \in Range(log) \/ "login:False" \in Range(log)

\* login() returned at its own navigate_directly_to_document
LoginWasSkipped ==
    /\ Len(log) >= 5 /\ log[3] = "login"
    /\ log[4] = "navigate_directly_to_document:True"

EarlyFailures == {"get_raised", "timeout", "no_button", "click_raised"}

\* C12 as stated: every invocation of the login flow clicks the submit button
\* exactly once unless it failed earlier with Timeout or ElementNotFound, and
\* reports success exactly when the URL read after the submit is not a login
\* URL; per row there is at most one invocation.
C12_SubmitsOnce ==
    /\ Count(log, "login") <= 1
    /\ LoginReturned =>
          /\ \/ Count(log, "submit") = 1
             \/ "timeout" \in Range(log)
             \/ "no_button" \in Range(log)
          /\ "login:True" \in Range(log) <=> "reread:other" \in Range(log)

\* C12 (amended): per row login() is invoked at most once and clicks the
\* submit button at most once. It returns success without a submit when its
\* own direct navigation reached a document-view URL; otherwise it submits
\* exactly once unless it failed earlier (navigation to the login page raised,
\* Timeout, no submit button, click raised), then reports success exactly when
\* the URL read after the submit is not a login URL; every failure is
\* reported without a second attempt.
C12_LoginFlow ==
    /\ Count(log, "login") <= 1 /\ Count(log, "submit") <= 1
    /\ Count(log, "login:True") + Count(log, "login:False") <= 1
    /\ \A k \in DOMAIN log :
          log[k] \in {"reread:login", "reread:other"} =>
              k > 1 /\ log[k - 1] = "submit"
    /\ LoginReturned =>
          /\ Count(log, "submit") = 1 <=>
                (~LoginWasSkipped /\ Range(log) \cap EarlyFailures = {})
          /\ "submit" \in Range(log) =>
                Count(log, "reread:login") + Count(log, "reread:other") = 1
          /\ "login:True" \in Range(log) <=>
                (LoginWasSkipped \/ "reread:other" \in Range(log))
          /\ "login:False" \in Range(log) <=>
                (Range(log) \cap EarlyFailures # {}
                    \/ "reread:login" \in Range(log))

C12_Witness ==
    /\ pc = "record"
    /\ Count(log, "submit") = 1
    /\ "get_login_url" \in Range(log)
    /\ "reread:login" \in Range(log)
    /\ "login:False" \in Range(log)

\* C13: navigate_to_document issues no navigation and reports success when
\* the current URL already contains the target URL; otherwise it navigates
\* exactly once and reports success exactly when the resulting URL contains
\* the document-view segment, and reports failure without a retry on a
\* mismatch or a raised error.
C13_DocumentLocator ==
    /\ [][pc = "nav_doc" =>
            IF Within(document_url, current_url)
            THEN /\ log' = Append(log, "navigate_to_document:True")
                 /\ current_url' = current_url
                 /\ pc' = "extract"
            ELSE /\ Len(log') >= Len(log) + 3
                 /\ SubSeq(log', 1, Len(log)) = log
                 /\ log'[Len(log) + 1] = "get_document"
                 /\ Count(log', "get_document") = 1
                 /\ log'[Len(log) + 3] = "navigate_to_document:True"
                        <=> log'[Len(log) + 2] = "shows:view"
                 /\ log'[Len(log) + 3] = "navigate_to_document:False"
                        <=> log'[Len(log) + 2] \in {"shows:other",
                                                    "get_document:raised"}
                 /\ pc' = "extract" <=> log'[Len(log) + 2] = "shows:view"
                 /\ pc' = "extract" => SEG_VIEW \in Range(current_url')
                 /\ pc' # "extract" => pc' = "record" /\ result' = NoneV]_vars
    /\ [](Count(log, "navigate_to_document:True")
             + Count(log, "navigate_to_document:False") <= 1)

C13_Witness ==
    /\ pc = "extract"
    /\ Count(log, "get_document") = 0
    /\ "navigate_to_document:True" \in Range(log)
    /\ "submit" \in Range(log)

----------------------------------------------------------------------------
(* Properties of the Extraction Engine *)

\* raw extraction returned data for a page whose certificate wait expired
TimedOutExtraction ==
    /\ pc \in {"parse", "record"}
    /\ "extract_certificate_info:data" \in Range(log)
    /\ page.certTimeout

\* C14: when the wait for the certificate element expires, raw extraction
\* still returns data with an empty certificate fragment and the collected
\* timeline, the row is recorded as a success with no 'Error' cell, and under
\* the pattern tier its three certificate fields are 'Not found'.
C14_CertificateTimeout ==
    /\ [](TimedOutExtraction =>
            /\ raw_data.certificate_html = <<>>
            /\ raw_data.timeline_html =
                  Concat([k \in DOMAIN page.blocks |-> BlockHtml(page.blocks[k])])
            /\ Len(raw_data.sent_by_blocks) = 1)
    /\ [][(TimedOutExtraction /\ pc = "record") =>
            /\ Truthy(result)
            /\ outcome'[i + 1].status = "ok"
            /\ \A j \in 1..4 : CellsOf(results_df', i + 1)[j] # Error
            /\ TierOf(log) \in {"pattern", "fallback"} =>
                  \A j \in 1..3 : CellsOf(results_df', i + 1)[j] = NotFound]_vars

C14_Witness ==
    /\ pc = "loop" /\ Len(outcome) = 1
    /\ outcome[1] = [status |-> "ok", tier |-> "pattern"]
    /\ CellsOf(results_df, 1) = <<NotFound, NotFound, NotFound, <<"Jane">>>>

\* C16: in run() raw extraction is attempted only while the browser's current
\* URL contains the document-view segment 'proposals/view', for every target
\* URL and every sequence of navigation and login outcomes.
C16_ExtractionOnDocumentPage ==
    pc = "extract" => SEG_VIEW \in Range(current_url)

====
